---------------------------- MODULE Spec2Model ----------------------------
(***************************************************************************)
(* Model of the epagneul ingestion pipeline:                                *)
(*   backend/epagneul/core/evtx.py   prefilter, normaliser, parse_evtx     *)
(*   backend/epagneul/core/neo4j.py  chunker, DataBase.add_evtx_store      *)
(* The Datastore class and the per-event extractors live in modules that    *)
(* are imported by evtx.py; they are modelled from the design document.     *)
(***************************************************************************)
EXTENDS Integers, Sequences, FiniteSets, TLC

(* ------------------------------ bounds --------------------------------- *)
\* longest record stream of one container
MaxRecords == 2
\* number of ingestion runs (containers) in one behaviour
MaxRuns == 2
\* rows per session.run call; stands for the 10000 of add_evtx_store
ChunkSize == 1
\* longest SystemTime string (in lexical tokens) fed to convert_logtime
MaxLogLen == 5

(* ------------------------ timestamp strings ---------------------------- *)
\* A SystemTime string is a sequence of lexical tokens.  A date token is
\* made of digits and '-', a time token of digits and ':', "123456" of
\* digits only; " " is whitespace; "T", "Z" are letters; "." is the dot.
Dates == {"2021-12-09", "2021-12-10"}
Times == {"10:00:00", "23:00:00"}
LogAlphabet == Dates \cup Times \cup {" ", "T", "Z", ".", "123456"}

DayOf(d) == IF d = "2021-12-09" THEN 0 ELSE 1
HourOf(t) == IF t = "10:00:00" THEN 10 ELSE 23

\* logtime.split(".")[0]
RECURSIVE split_dot0(_)
split_dot0(s) ==
    IF s = << >> \/ Head(s) = "." THEN << >>
    ELSE << Head(s) >> \o split_dot0(Tail(s))

\* re.sub with a character class that leaves the letter T in place
re_sub_keepT(s) ==
    [i \in DOMAIN s |-> IF s[i] \in {".", "Z"} THEN " " ELSE s[i]]

\* re.sub("[^0-9-:\s]", " ", ...)
re_sub(s) ==
    [i \in DOMAIN s |->
        IF s[i] \in Dates \cup Times \cup {" ", "123456"} THEN s[i] ELSE " "]

\* str.strip()
RECURSIVE lstrip(_)
lstrip(s) == IF s # << >> /\ Head(s) = " " THEN lstrip(Tail(s)) ELSE s

RECURSIVE rstrip(_)
rstrip(s) ==
    IF s # << >> /\ s[Len(s)] = " " THEN rstrip(SubSeq(s, 1, Len(s) - 1)) ELSE s

strip(s) == rstrip(lstrip(s))

\* strptime(s, "%Y-%m-%d %H:%M:%S"): a blank of the format matches \s+
strptime_space(s) ==
    /\ Len(s) >= 3
    /\ s[1] \in Dates
    /\ s[Len(s)] \in Times
    /\ \A i \in 2..(Len(s) - 1) : s[i] = " "

\* strptime(s, "%Y-%m-%dT%H:%M:%S")
strptime_T(s) ==
    /\ Len(s) = 3
    /\ s[1] \in Dates
    /\ s[2] = "T"
    /\ s[3] \in Times

\* wall-clock value of a matched string, in hours
WallClock(s) == DayOf(s[1]) * 24 + HourOf(s[Len(s)])

\* convert_logtime(logtime, tzone): the instant (in hours), the format that
\* produced it, or the ValueError of the second strptime
convert_logtime(logtime, tzone) ==
    LET tzless == strip(re_sub(split_dot0(logtime)))
    IN  IF strptime_space(tzless)
        THEN [via |-> "first", value |-> WallClock(tzless) + tzone]
        ELSE IF strptime_T(tzless)
        THEN [via |-> "fallback", value |-> WallClock(tzless) + tzone]
        ELSE [via |-> "ValueError", value |-> -1]

\* default of the tzone parameter
DefaultTzone == 1

(* ---------------------------- raw records ------------------------------- *)
\* keys of the supported_events dict
supported_events ==
    [i \in {3, 4648, 4624, 4625, 4672, 4768, 4769, 4771, 4776, 4728, 4732, 4756}
        |-> CASE i = 3 -> "parse_3"
              [] i = 4648 -> "parse_4648"
              [] i = 4624 -> "parse_logon_successfull"
              [] i = 4625 -> "parse_logon_failed"
              [] i = 4672 -> "parse_4672"
              [] i = 4768 -> "parse_4768"
              [] i = 4769 -> "parse_tgs"
              [] i = 4771 -> "parse_tgt_failed"
              [] i = 4776 -> "parse_ntlm_request"
              [] OTHER -> "parse_add_group"]

Ids == {"A", "B"}

\* SystemTime strings carried by the records of the model
TS1 == << "2021-12-09", " ", "10:00:00", ".", "123456" >>
TS2 == << "2021-12-09", "T", "23:00:00", ".", "123456", "Z" >>
TS3 == << "2021-12-10", "T", "10:00:00" >>
TSBad == << "2021-12-10" >>

\* A raw record r["data"], as far as the pipeline looks at it:
\*   wf      the text is well-formed XML
\*   form    how the /Event/System/EventID start tag is written:
\*           "plain" <EventID>N</EventID>, "attrs" <EventID Qualifiers="0">N</EventID>
\*   eid     N, the text of /Event/System/EventID
\*   decoy   N' of another <EventID>N'</EventID> element outside /Event/System
\*           (0: there is none)
\*   hasTime /Event/System/TimeCreated exists
\*   time    its SystemTime attribute
\*   src,tgt the actor and target names in /Event/EventData/Data
Rec(wf, form, eid, decoy, hasTime, time, src, tgt) ==
    [wf |-> wf, form |-> form, eid |-> eid, decoy |-> decoy,
     hasTime |-> hasTime, time |-> time, src |-> src, tgt |-> tgt]

Records ==
    {Rec(TRUE, "plain", 4624, 0, TRUE, TS1, "A", "A"),
     Rec(TRUE, "plain", 4624, 0, TRUE, TS2, "A", "A"),
     Rec(TRUE, "plain", 4728, 0, TRUE, TS1, "A", "B"),
     \* unsupported id, rejected by the prefilter
     Rec(TRUE, "plain", 5140, 0, TRUE, TS3, "A", "A"),
     \* unsupported id, but the text holds <EventID>3< elsewhere
     Rec(TRUE, "plain", 5140, 3, TRUE, TS3, "A", "A"),
     \* supported id written with a Qualifiers attribute
     Rec(TRUE, "attrs", 4624, 0, TRUE, TS3, "B", "A"),
     \* not well-formed XML
     Rec(FALSE, "plain", 4624, 0, TRUE, TS1, "A", "A"),
     \* unparseable SystemTime
     Rec(TRUE, "plain", 4624, 0, TRUE, TSBad, "A", "A"),
     \* no TimeCreated element
     Rec(TRUE, "plain", 4624, 0, FALSE, << >>, "A", "A")}

\* re.search(USEFULL_EVENTS_STR, data): the text holds "<EventID>" directly
\* followed by a supported id and "<"
USEFULL_EVENTS_STR(r) ==
    \/ r.form = "plain" /\ r.eid \in DOMAIN supported_events
    \/ r.decoy \in DOMAIN supported_events

\* to_lxml raises XMLSyntaxError on text that is not well-formed
to_lxml(r) == r.wf

\* get_event_from_xml raises (XMLSyntaxError, IndexError, ValueError)
get_event_from_xml_raises(r) ==
    \/ ~to_lxml(r)
    \/ ~r.hasTime
    \/ convert_logtime(r.time, DefaultTzone).via = "ValueError"

\* the Event built by get_event_from_xml
get_event_from_xml(r) ==
    [event_id |-> r.eid,
     timestamp |-> convert_logtime(r.time, DefaultTzone).value,
     data |-> << r.src, r.tgt >>]

(* ------------------- Datastore and the extractors ---------------------- *)
NoTime == -1

\* Datastore(): three entity tables and the relationship table, each an
\* insertion-ordered dict, and the observation window
Datastore ==
    [users |-> << >>, machines |-> << >>, groups |-> << >>,
     relationships |-> << >>,
     start_time |-> NoTime, end_time |-> NoTime, finalized |-> 0]

Kinds == {"User", "Machine", "Group"}

TableOf(kind) ==
    CASE kind = "User" -> "users"
      [] kind = "Machine" -> "machines"
      [] kind = "Group" -> "groups"

\* Datastore.add_timestamp
add_timestamp(st, ts) ==
    [st EXCEPT
        !.start_time = IF @ = NoTime \/ ts < @ THEN ts ELSE @,
        !.end_time = IF @ = NoTime \/ ts > @ THEN ts ELSE @]

\* Datastore.add_user / add_machine / add_group: create on first observation
add_entity(st, kind, id) ==
    LET tbl == st[TableOf(kind)]
    IN  IF \E i \in DOMAIN tbl : tbl[i].id = id
        THEN st
        ELSE [st EXCEPT ![TableOf(kind)] =
                 Append(tbl, [id |-> id, finalized |-> 0])]

\* Datastore.add_relationship: create with count 1, or count + 1 and append
add_relationship(st, rel, ts) ==
    LET rels == st.relationships
        same(i) == /\ rels[i].source = rel.source
                   /\ rels[i].target = rel.target
                   /\ rels[i].event_type = rel.event_type
    IN  IF \E i \in DOMAIN rels : same(i)
        THEN [st EXCEPT !.relationships =
                 [i \in DOMAIN rels |->
                     IF same(i)
                     THEN [rels[i] EXCEPT !.count = @ + 1,
                                          !.timestamps = Append(@, ts)]
                     ELSE rels[i]]]
        ELSE [st EXCEPT !.relationships =
                 Append(rels, [rel EXCEPT !.count = 1, !.timestamps = << ts >>])]

\* what each extractor reports: the kinds of its two ends and the event type
HandlerShape(h) ==
    CASE h = "parse_3" ->
           [source_type |-> "Machine", target_type |-> "Machine",
            event_type |-> "NETWORK_CONNECTION"]
      [] h = "parse_4648" ->
           [source_type |-> "User", target_type |-> "Machine",
            event_type |-> "EXPLICIT_CREDENTIAL_LOGON"]
      [] h = "parse_logon_successfull" ->
           [source_type |-> "User", target_type |-> "Machine",
            event_type |-> "LOGON_SUCCESS"]
      [] h = "parse_logon_failed" ->
           [source_type |-> "User", target_type |-> "Machine",
            event_type |-> "LOGON_FAILURE"]
      [] h = "parse_4672" ->
           [source_type |-> "User", target_type |-> "Machine",
            event_type |-> "SPECIAL_PRIVILEGE_ASSIGNED"]
      [] h = "parse_4768" ->
           [source_type |-> "User", target_type |-> "Machine",
            event_type |-> "TGT_REQUEST"]
      [] h = "parse_tgs" ->
           [source_type |-> "User", target_type |-> "Machine",
            event_type |-> "TGS_REQUEST"]
      [] h = "parse_tgt_failed" ->
           [source_type |-> "User", target_type |-> "Machine",
            event_type |-> "TGT_FAILURE"]
      [] h = "parse_ntlm_request" ->
           [source_type |-> "User", target_type |-> "Machine",
            event_type |-> "NTLM_VALIDATION"]
      [] h = "parse_add_group" ->
           [source_type |-> "User", target_type |-> "Group",
            event_type |-> "GROUP_MEMBERSHIP_ADD"]

\* an extractor: upsert both ends, report one relationship occurrence
Extractor(h, st, event) ==
    LET sh == HandlerShape(h)
        st1 == add_entity(st, sh.source_type, event.data[1])
        st2 == add_entity(st1, sh.target_type, event.data[2])
    IN  add_relationship(st2,
            [source |-> event.data[1], target |-> event.data[2],
             source_type |-> sh.source_type, target_type |-> sh.target_type,
             event_type |-> sh.event_type, count |-> 0, timestamps |-> << >>],
            event.timestamp)

\* Datastore.finalize(): the finalize pass over the store and its entities
Store_finalize(st) ==
    LET fin(tbl) == [i \in DOMAIN tbl |-> [tbl[i] EXCEPT !.finalized = @ + 1]]
    IN  [st EXCEPT !.users = fin(@), !.machines = fin(@), !.groups = fin(@),
                   !.finalized = @ + 1]

(* ------------------------------ parse_evtx ----------------------------- *)
\* body of the loop of parse_evtx after the prefilter, with add_timestamp
\* moved under the support test
parse_evtx_fold_supportedOnly(st, event) ==
    IF event.event_id \in DOMAIN supported_events
    THEN Extractor(supported_events[event.event_id],
                   add_timestamp(st, event.timestamp), event)
    ELSE st

\* the same, with the handler called twice
parse_evtx_fold_twice(st, event) ==
    LET st1 == add_timestamp(st, event.timestamp)
        h == supported_events[event.event_id]
    IN  IF event.event_id \in DOMAIN supported_events
        THEN Extractor(h, Extractor(h, st1, event), event)
        ELSE st1

\* body of the loop of parse_evtx for an event: add_timestamp, then dispatch
parse_evtx_fold(st, event) ==
    LET st1 == add_timestamp(st, event.timestamp)
    IN  IF event.event_id \in DOMAIN supported_events
        THEN Extractor(supported_events[event.event_id], st1, event)
        ELSE st1

(* ----------------------------- graph store ----------------------------- *)
Folders == {"a"}

\* a node of the graph store is identified by its label, folder and id;
\* nodes[k] is the number of nodes carrying exactly these
NodeKeys == Kinds \X Folders \X Ids

NoNodes == [k \in NodeKeys |-> 0]

\* no LogonEvent edge: edges is a function from the keys of the stored edges
\* << folder, source label, source id, target label, target id, event_type >>
NoEdges == << >>

\* chunker with slices one element too long: seq[pos : pos + size + 1]
chunker_overlap(seq, size) ==
    [k \in 1..((Len(seq) + size - 1) \div size) |->
        SubSeq(seq, (k - 1) * size + 1,
               IF k * size + 1 < Len(seq) THEN k * size + 1 ELSE Len(seq))]

\* chunker(seq, size): seq[pos : pos + size] for pos in range(0, len(seq), size)
chunker(seq, size) ==
    [k \in 1..((Len(seq) + size - 1) \div size) |->
        SubSeq(seq, (k - 1) * size + 1,
               IF k * size < Len(seq) THEN k * size ELSE Len(seq))]

\* int(round(datetime.timestamp(ts))): epoch seconds of an instant in hours
ToEpoch(ts) == ts * 3600

\* add_evtx_store, the three finalize loops: finalize() on every entity
finalize_entities(st) ==
    LET fin(tbl) == [i \in DOMAIN tbl |-> [tbl[i] EXCEPT !.finalized = @ + 1]]
    IN  [st EXCEPT !.groups = fin(@), !.users = fin(@), !.machines = fin(@)]

\* add_evtx_store, the events loop: one RelationshipInDB row per relationship,
\* without source_type and target_type
export_rows(st) ==
    [i \in DOMAIN st.relationships |->
        LET e == st.relationships[i]
        IN  [source |-> e.source, target |-> e.target,
             event_type |-> e.event_type, count |-> e.count,
             timestamps |-> [j \in DOMAIN e.timestamps |-> ToEpoch(e.timestamps[j])],
             tip |-> << "event_type", e.event_type >>]]

\* CREATE (n: label {folder, id}) in place of MERGE
create_node(n, label, folder, id) ==
    [n EXCEPT ![<< label, folder, id >>] = @ + 1]

\* MERGE (n: label {folder: $folder, id: row.id}) ON CREATE SET n += row
merge_node(n, label, folder, id) ==
    [n EXCEPT ![<< label, folder, id >>] = IF @ = 0 THEN 1 ELSE @]

\* UNWIND $rows as row MERGE ... : one session.run over an entity table
RECURSIVE merge_nodes(_, _, _, _)
merge_nodes(n, label, folder, tbl) ==
    IF tbl = << >> THEN n
    ELSE merge_nodes(merge_node(n, label, folder, Head(tbl).id),
                     label, folder, Tail(tbl))

\* MATCH (source {id: row.source, folder: $folder}),
\*       (target {id: row.target, folder: $folder}):
\* the keys of the edges between every matched pair of nodes
matched_edges(n, folder, row) ==
    {<< folder, s[1], s[3], t[1], t[3], row.event_type >> :
        s \in {k \in NodeKeys : n[k] > 0 /\ k[2] = folder /\ k[3] = row.source},
        t \in {k \in NodeKeys : n[k] > 0 /\ k[2] = folder /\ k[3] = row.target}}

\* MERGE (source)-[rel: LogonEvent {event_type: row.event_type}]->(target)
\* ON CREATE SET rel += row ON MATCH SET rel.count = rel.count + row.count
merge_edge(e, n, folder, row) ==
    LET keys == matched_edges(n, folder, row)
    IN  [k \in DOMAIN e \cup keys |->
            IF k \notin keys THEN e[k]
            ELSE IF k \in DOMAIN e
            THEN [e[k] EXCEPT !.count = @ + row.count]
            ELSE [count |-> row.count, timestamps |-> row.timestamps,
                  source |-> row.source, target |-> row.target,
                  event_type |-> row.event_type, tip |-> row.tip]]

\* UNWIND $events as row ...: one session.run over a chunk
RECURSIVE run_events(_, _, _, _)
run_events(e, n, folder, chunk) ==
    IF chunk = << >> THEN e
    ELSE run_events(merge_edge(e, n, folder, Head(chunk)), n, folder, Tail(chunk))

\* for chunk in chunker(events, 10000): session.run(...)
RECURSIVE run_chunks(_, _, _, _)
run_chunks(e, n, folder, chunks) ==
    IF chunks = << >> THEN e
    ELSE run_chunks(run_events(e, n, folder, Head(chunks)), n, folder, Tail(chunks))

\* the nodes after the three entity session.run calls
add_evtx_store_nodes(n, st, folder) ==
    merge_nodes(
        merge_nodes(
            merge_nodes(n, "Group", folder, st.groups),
            "User", folder, st.users),
        "Machine", folder, st.machines)

RECURSIVE Concat(_)
Concat(ss) == IF ss = << >> THEN << >> ELSE Head(ss) \o Concat(Tail(ss))

(* ------------------------------- state --------------------------------- *)
VARIABLES
    pc,       \* position of the ingestion run
    runs,     \* runs started so far
    err,      \* the exception that ended the run, if any
    seen,     \* records read from evtx.records() in this run, with their fate
    store,    \* the Datastore of this run
    nodes,    \* graph store: nodes
    edges,    \* graph store: LogonEvent edges
    handoff,  \* the session.run calls of the last add_evtx_store
    logtime,  \* argument of a stand-alone convert_logtime call
    tres,     \* its result
    tpc       \* position of that call

vars == << pc, runs, err, seen, store, nodes, edges, handoff, logtime, tres, tpc >>

mainVars == << pc, runs, err, seen, store, nodes, edges, handoff >>
timeVars == << logtime, tres, tpc >>

NoHandoff == [folder |-> "", calls |-> << >>, touched |-> << >>]
NoResult == [via |-> "none", value |-> -1]

Init ==
    /\ pc = "idle"
    /\ runs = 0
    /\ err = "none"
    /\ seen = << >>
    /\ store = Datastore
    /\ nodes = NoNodes
    /\ edges = NoEdges
    /\ handoff = NoHandoff
    /\ logtime = << >>
    /\ tres = NoResult
    /\ tpc = "off"

(* ------------------------------ actions -------------------------------- *)
\* parse_evtx up to the loop: PyEvtxParser(file_data) opens the container
\* (or raises), store = Datastore()
StartRun ==
    /\ pc \in {"idle", "stored", "aborted"}
    /\ runs < MaxRuns
    /\ runs' = runs + 1
    /\ seen' = << >>
    /\ store' = Datastore
    /\ \E decodes \in BOOLEAN :
          IF decodes
          THEN pc' = "parsing" /\ err' = "none"
          ELSE pc' = "aborted" /\ err' = "ContainerDecodeError"
    /\ UNCHANGED << nodes, edges, handoff, timeVars >>

\* one iteration of the loop of parse_evtx over the next record
NextRecord ==
    /\ pc = "parsing"
    /\ Len(seen) < MaxRecords
    /\ \E r \in Records :
          IF ~USEFULL_EVENTS_STR(r)
          THEN \* continue
               /\ seen' = Append(seen, [rec |-> r, fate |-> "skipped"])
               /\ UNCHANGED << pc, err, store >>
          ELSE IF get_event_from_xml_raises(r)
          THEN \* the exception leaves parse_evtx; nothing is returned
               /\ seen' = Append(seen, [rec |-> r, fate |-> "raised"])
               /\ pc' = "aborted"
               /\ err' = "RecordError"
               /\ store' = Datastore
          ELSE /\ seen' = Append(seen, [rec |-> r, fate |-> "folded"])
               /\ store' = parse_evtx_fold(store, get_event_from_xml(r))
               /\ UNCHANGED << pc, err >>
    /\ UNCHANGED << runs, nodes, edges, handoff, timeVars >>

\* evtx.records() is exhausted: parse_evtx returns the store
EndOfStream ==
    /\ pc = "parsing"
    /\ pc' = "parsed"
    /\ UNCHANGED << runs, err, seen, store, nodes, edges, handoff, timeVars >>

\* store.finalize() of the caller
Finalize ==
    /\ pc = "parsed"
    /\ pc' = "finalized"
    /\ store' = Store_finalize(store)
    /\ UNCHANGED << runs, err, seen, nodes, edges, handoff, timeVars >>

\* db.add_evtx_store(store, folder)
AddEvtxStore ==
    /\ pc = "finalized"
    /\ \E folder \in Folders :
          LET events == export_rows(store)
              n1 == add_evtx_store_nodes(nodes, store, folder)
              chunks == chunker(events, ChunkSize)
          IN  /\ store' = finalize_entities(store)
              /\ nodes' = n1
              /\ edges' = run_chunks(edges, n1, folder, chunks)
              /\ handoff' = [folder |-> folder, calls |-> chunks,
                             touched |-> [i \in DOMAIN events |->
                                             matched_edges(n1, folder, events[i])]]
    /\ pc' = "stored"
    /\ UNCHANGED << runs, err, seen, timeVars >>

Next ==
    \/ StartRun
    \/ NextRecord
    \/ EndOfStream
    \/ Finalize
    \/ AddEvtxStore

Spec == Init /\ [][Next]_vars

(* ------------------- convert_logtime on its own ------------------------ *)
LogStrings == UNION {[1..n -> LogAlphabet] : n \in 0..MaxLogLen}

TInit ==
    /\ pc = "idle"
    /\ runs = 0
    /\ err = "none"
    /\ seen = << >>
    /\ store = Datastore
    /\ nodes = NoNodes
    /\ edges = NoEdges
    /\ handoff = NoHandoff
    /\ logtime \in LogStrings
    /\ tres = NoResult
    /\ tpc = "call"

\* convert_logtime(logtime) with the default tzone
ConvertLogtime ==
    /\ tpc = "call"
    /\ tres' = convert_logtime(logtime, DefaultTzone)
    /\ tpc' = "returned"
    /\ UNCHANGED << logtime, mainVars >>

TNext == ConvertLogtime

SpecTime == TInit /\ [][TNext]_vars

(* --------------------------- stream history ---------------------------- *)
\* the record parses: get_event_from_xml returns an Event for it
WellFormed(r) == ~get_event_from_xml_raises(r)

\* the instant of a record that parses
InstOf(r) == convert_logtime(r.time, DefaultTzone).value

\* positions of the records of this run that reached add_timestamp
Folded == {i \in DOMAIN seen : seen[i].fate = "folded"}

\* ... and whose decoded event id has a handler
FoldedSupported ==
    {i \in Folded : seen[i].rec.eid \in DOMAIN supported_events}

InWindow(t) ==
    /\ store.start_time # NoTime
    /\ store.start_time <= t
    /\ t <= store.end_time

RECURSIVE SumCounts(_)
SumCounts(rels) ==
    IF rels = << >> THEN 0 ELSE Head(rels).count + SumCounts(Tail(rels))

(* -------------------------------- C1 ----------------------------------- *)
\* C1 as stated: when parse_evtx returns, the window covers the timestamp of
\* every well-formed record of the stream, supported or not (stated for
\* streams in which no supported record is lost to the prefilter).
C1_Original ==
    (/\ pc = "parsed"
     /\ \A i \in DOMAIN seen :
           WellFormed(seen[i].rec) /\ seen[i].rec.eid \in DOMAIN supported_events
              => USEFULL_EVENTS_STR(seen[i].rec))
    => \A i \in DOMAIN seen :
          WellFormed(seen[i].rec) => InWindow(InstOf(seen[i].rec))

\* C1 amended: the window is exactly the span of the timestamps of the
\* records that the prefilter accepted (and that parsed), whether or not
\* their event id is supported; only the supported ones among them
\* contribute entities and relationship occurrences.
C1_Window ==
    pc \in {"parsing", "parsed"} =>
       /\ \A i \in Folded : InWindow(InstOf(seen[i].rec))
       /\ Folded = {} => store.start_time = NoTime /\ store.end_time = NoTime
       /\ Folded # {} =>
             /\ \E i \in Folded : store.start_time = InstOf(seen[i].rec)
             /\ \E i \in Folded : store.end_time = InstOf(seen[i].rec)
       /\ SumCounts(store.relationships) = Cardinality(FoldedSupported)
       /\ FoldedSupported = {} =>
             store.users = << >> /\ store.machines = << >> /\ store.groups = << >>

\* a supported record, then an accepted unsupported one that widens the window
C1_Witness ==
    /\ pc = "parsed"
    /\ Len(seen) = 2
    /\ Folded = {1, 2}
    /\ FoldedSupported = {1}
    /\ store.start_time = InstOf(seen[1].rec)
    /\ store.end_time = InstOf(seen[2].rec)
    /\ store.start_time < store.end_time
    /\ Len(store.relationships) = 1

(* -------------------------------- C2 ----------------------------------- *)
\* C2: a record whose decoded EventID is a key of supported_events is never
\* skipped by the prefilter.
C2_PrefilterSound ==
    \A i \in DOMAIN seen :
       seen[i].rec.wf /\ seen[i].rec.eid \in DOMAIN supported_events
          => seen[i].fate # "skipped"

(* -------------------------------- C3 ----------------------------------- *)
\* the relationship key an extractor reports for a record
KeyOf(r) ==
    << r.src, r.tgt, HandlerShape(supported_events[r.eid]).event_type >>

\* the instants of the observations of key k in this run, in encounter order
RECURSIVE ObsOf(_, _)
ObsOf(k, i) ==
    IF i = 0 THEN << >>
    ELSE IF i \in FoldedSupported /\ KeyOf(seen[i].rec) = k
         THEN Append(ObsOf(k, i - 1), InstOf(seen[i].rec))
         ELSE ObsOf(k, i - 1)

C4_MergeContract ==
    \A k \in DOMAIN edges : edges[k].count = Len(edges[k].timestamps)

(* -------------------------------- C5 ----------------------------------- *)
\* C5: no run is ended by the failure of one record; only a container-level
\* decode failure aborts.
C5_Isolation ==
    pc = "aborted" => err = "ContainerDecodeError"

(* -------------------------------- C7 ----------------------------------- *)
AllEntities(st) == st.users \o st.machines \o st.groups

NoDupIds(tbl) == \A i, j \in DOMAIN tbl : tbl[i].id = tbl[j].id => i = j

\* C8: there is never more than one node for a (kind, folder, id), and never
\* more than one row for an id in an entity table of the store.
C8_Dedup ==
    /\ \A k \in NodeKeys : nodes[k] <= 1
    /\ NoDupIds(store.users) /\ NoDupIds(store.machines) /\ NoDupIds(store.groups)
    /\ pc = "stored" =>
          /\ \A i \in DOMAIN store.users : nodes[<< "User", handoff.folder, store.users[i].id >>] = 1
          /\ \A i \in DOMAIN store.machines : nodes[<< "Machine", handoff.folder, store.machines[i].id >>] = 1
          /\ \A i \in DOMAIN store.groups : nodes[<< "Group", handoff.folder, store.groups[i].id >>] = 1

\* user A seen in two relationships of the second run and handed off to a
\* folder that already held it
C8_Witness ==
    /\ pc = "stored"
    /\ runs = 2
    /\ Len(store.relationships) = 2
    /\ Len(store.users) = 1
    /\ store.users[1].id = "A"
    /\ nodes[<< "User", handoff.folder, "A" >>] = 1
    /\ \E k \in DOMAIN edges : k[1] = handoff.folder /\ edges[k].count >= 2

C10_OneEdge ==
    pc = "stored" =>
       \A i \in DOMAIN store.relationships :
          LET e == store.relationships[i]
          IN  handoff.touched[i] =
                 {<< handoff.folder, e.source_type, e.source,
                     e.target_type, e.target, e.event_type >>}

(* -------------------------------- C6 ----------------------------------- *)
Fraction == {<< >>, << ".", "123456" >>}

\* C6 as stated: the space-separated string parses via the first format and
\* the 'T'-separated one via the fallback format, to the same instant.
C6_Original ==
    tpc = "returned" =>
       \A d \in Dates, t \in Times, f \in Fraction :
          /\ logtime = << d, " ", t >> \o f =>
                tres = [via |-> "first",
                        value |-> DayOf(d) * 24 + HourOf(t) + DefaultTzone]
          /\ logtime = << d, "T", t >> \o f =>
                tres = [via |-> "fallback",
                        value |-> DayOf(d) * 24 + HourOf(t) + DefaultTzone]

\* tokens that end up as whitespace
Blank == {" ", "T", "Z"}

\* the part before the first dot is a date and a time separated by at least
\* one blank or letter, with nothing but blanks and letters around them
DateTimeShaped(s) ==
    LET p == split_dot0(s)
    IN  \E i, j \in DOMAIN p :
           /\ i + 1 < j
           /\ p[i] \in Dates
           /\ p[j] \in Times
           /\ \A x \in DOMAIN p : x # i /\ x # j => p[x] \in Blank

\* C6 amended: both the space-separated and the 'T'-separated string parse
\* via the first format (the 'T' has become a blank), to the wall-clock time
\* plus the offset; the fallback format never yields an instant; a string
\* that is not date-blank-time shaped before its first dot fails.
C6_Fallback ==
    tpc = "returned" =>
       /\ \A d \in Dates, t \in Times, f \in Fraction, sep \in {" ", "T"} :
             logtime = << d, sep, t >> \o f =>
                tres = [via |-> "first",
                        value |-> DayOf(d) * 24 + HourOf(t) + DefaultTzone]
       /\ tres.via # "fallback"
       /\ tres.via = "ValueError" <=> ~DateTimeShaped(logtime)
       /\ tres.via = "first" => tres.value >= DefaultTzone

\* the 'T'-separated example of the design document
C6_Witness ==
    /\ tpc = "returned"
    /\ logtime = << "2021-12-09", "T", "10:00:00", ".", "123456" >>
    /\ tres = [via |-> "first", value |-> 11]

====
